---- MODULE Spec2Model ----
(***************************************************************************)
(* Model of beacon::validation (include/beacon/abstract_schema_validator.h) *)
(* ValidationResult, the ValidatableField variants (Lambda, And, Or,       *)
(* Object, Array), the FieldBuilder and AbstractSchemaValidator.           *)
(*                                                                         *)
(* JSON values and validators are records of one uniform shape each, so    *)
(* that any two of them can be compared.  A std::unordered_map is a        *)
(* sequence of its entries in iteration order; the order is chosen         *)
(* nondeterministically when the map changes, as the standard leaves it    *)
(* unspecified.                                                            *)
(*                                                                         *)
(* Spec builds a schema through the FieldBuilder, call by call, and        *)
(* validates documents at any time.  SpecBuilt starts from a schema the    *)
(* builder has finished, drawn from a larger set of validators (nested     *)
(* objects, arrays, conjunctions, disjunctions), and validates documents.  *)
(***************************************************************************)
EXTENDS Integers, Sequences, FiniteSets, TLC

VARIABLES schema_, builder, json, result, history, threads,
          schemas, schemas_id_seq, reply

vars == <<schema_, builder, json, result, history, threads,
          schemas, schemas_id_seq, reply>>

(* what no operation of the validator touches: the record of earlier calls *)
(* and of calls in progress, and the persistence collaborator's state       *)
callers == <<history, threads>>
storage == <<schemas, schemas_id_seq, reply>>

(* Longest validators_ list a FieldBuilder accumulates, and longest child  *)
(* list handed to and_validator / or_validator.                            *)
MaxValidators == 2

(* Width of int in the model; the values a document holds are wider. *)
IntBits == 8

-----------------------------------------------------------------------------
(* nlohmann::json values *)

JVal(t, s, i, b, keys, kids) ==
    [t |-> t, s |-> s, i |-> i, b |-> b, keys |-> keys, kids |-> kids]

JNull == JVal("null", "", 0, FALSE, <<>>, <<>>)
JBool(b) == JVal("boolean", "", 0, b, <<>>, <<>>)
JInt(i) == JVal("integer", "", i, FALSE, <<>>, <<>>)
JStr(s) == JVal("string", s, 0, FALSE, <<>>, <<>>)
JArr(kids) == JVal("array", "", 0, FALSE, <<>>, kids)
JObj(keys, kids) == JVal("object", "", 0, FALSE, keys, kids)

(* json passed to no validate call yet *)
NoJson == JVal("unset", "", 0, FALSE, <<>>, <<>>)

is_object(v) == v.t = "object"
is_array(v) == v.t = "array"
is_string(v) == v.t = "string"
is_boolean(v) == v.t = "boolean"
is_number_integer(v) == v.t = "integer"

contains(v, key) == \E k \in 1..Len(v.keys) : v.keys[k] = key

at_key(v, key) == v.kids[CHOOSE k \in 1..Len(v.keys) : v.keys[k] = key]

at_index(v, i) == v.kids[i + 1]

size(v) == IF is_string(v) THEN Len(v.s) ELSE Len(v.kids)

(* json::get<int>() of an integer value: conversion to the narrower int,   *)
(* which keeps the low IntBits bits (two's complement).                    *)
get_int(v) == ((v.i + 2^(IntBits - 1)) % 2^IntBits) - 2^(IntBits - 1)

-----------------------------------------------------------------------------
(* ValidationResult *)

ValidationResult(success, error_message, path) ==
    [success |-> success, error_message |-> error_message, path |-> path]

ok == ValidationResult(TRUE, "", "")

fail(msg) == ValidationResult(FALSE, msg, "")

(* prepend_path that writes the separator even next to an empty side *)
prepend_path_always_dot(r, prefix) ==
    IF r.success THEN r
    ELSE ValidationResult(FALSE, r.error_message, prefix \o "." \o r.path)

prepend_path(r, prefix) ==
    IF r.success THEN r
    ELSE LET new_path == IF prefix # "" /\ r.path # ""
                         THEN prefix \o "." \o r.path
                         ELSE prefix \o r.path
         IN  ValidationResult(FALSE, r.error_message, new_path)

-----------------------------------------------------------------------------
(* Validators (ValidatableField and its subclasses) *)

(* One record shape for every validator: kind names the subclass, fn the   *)
(* wrapped function of a LambdaValidator with its captured number n and    *)
(* text, children the validators it owns.                                  *)
Rule(kind, fn, n, text, names, children, required_fields_, has_min, min_size_, has_max, max_size_) ==
    [kind |-> kind, fn |-> fn, n |-> n, text |-> text, names |-> names,
     children |-> children, required_fields_ |-> required_fields_,
     has_min |-> has_min, min_size_ |-> min_size_,
     has_max |-> has_max, max_size_ |-> max_size_]

LambdaValidator(fn, n, text) ==
    Rule("Lambda", fn, n, text, <<>>, <<>>, <<>>, FALSE, 0, FALSE, 0)

AndValidator(validators) ==
    Rule("And", "", 0, "", <<>>, validators, <<>>, FALSE, 0, FALSE, 0)

OrValidator(validators) ==
    Rule("Or", "", 0, "", <<>>, validators, <<>>, FALSE, 0, FALSE, 0)

(* schema: names[k] maps to children[k], in the iteration order of the map *)
ObjectValidator(names, children, required_fields) ==
    Rule("Object", "", 0, "", names, children, required_fields,
         FALSE, 0, FALSE, 0)

ArrayValidator(element_validator, has_min, min_size, has_max, max_size) ==
    Rule("Array", "", 0, "", <<>>, <<element_validator>>, <<>>,
         has_min, min_size, has_max, max_size)

make_always_valid == LambdaValidator("always_valid", 0, "")
make_is_string == LambdaValidator("is_string", 0, "")
make_non_empty_string == LambdaValidator("non_empty_string", 0, "")
make_is_integer == LambdaValidator("is_integer", 0, "")
make_is_boolean == LambdaValidator("is_boolean", 0, "")
make_is_array == LambdaValidator("is_array", 0, "")
make_is_object == LambdaValidator("is_object", 0, "")
make_min_length(min_len) == LambdaValidator("min_length", min_len, "")
make_max_length(max_len) == LambdaValidator("max_length", max_len, "")
make_min_integer(min_val) == LambdaValidator("min_integer", min_val, "")
make_max_integer(max_val) == LambdaValidator("max_integer", max_val, "")

(* Caller-supplied LambdaValidator functions: one that fails with a fixed  *)
(* message and one that throws when invoked.                               *)
custom_fail(msg) == LambdaValidator("custom_fail", 0, msg)
custom_throw == LambdaValidator("custom_throw", 0, "")

(* std::regex re(pattern) throws std::regex_error: of the patterns used    *)
(* here, the one that opens a group and never closes it                    *)
regex_error(pattern) == pattern = "("

(* e.what(), a text of the library *)
regex_error_what == "regex_error"

(* std::regex_match(str, re) for a pattern of literal characters: the      *)
(* whole string is the pattern                                             *)
regex_match(str, pattern) == str = pattern

(* the pattern is captured as a string and compiled on every call *)
make_regex(pattern) == LambdaValidator("regex", 0, pattern)

(* The function wrapped by a LambdaValidator, applied to a value *)
ValidatorFn(rule, val) ==
    CASE rule.fn = "always_valid" -> ok
      [] rule.fn = "is_string" ->
            IF ~is_string(val) THEN fail("Not a string") ELSE ok
      [] rule.fn = "non_empty_string" ->
            IF ~is_string(val) THEN fail("Not a string")
            ELSE IF val.s = "" THEN fail("Empty string") ELSE ok
      [] rule.fn = "is_integer" ->
            IF ~is_number_integer(val) THEN fail("Not an integer") ELSE ok
      [] rule.fn = "is_boolean" ->
            IF ~is_boolean(val) THEN fail("Not a boolean") ELSE ok
      [] rule.fn = "is_array" ->
            IF ~is_array(val) THEN fail("Not an array") ELSE ok
      [] rule.fn = "is_object" ->
            IF ~is_object(val) THEN fail("Not an object") ELSE ok
      [] rule.fn = "min_length" ->
            IF is_string(val)
            THEN IF size(val) < rule.n
                 THEN fail("String length < " \o ToString(rule.n)) ELSE ok
            ELSE IF is_array(val)
            THEN IF size(val) < rule.n
                 THEN fail("Array size < " \o ToString(rule.n)) ELSE ok
            ELSE fail("Value has no length")
      [] rule.fn = "max_length" ->
            IF is_string(val)
            THEN IF size(val) > rule.n
                 THEN fail("String length > " \o ToString(rule.n)) ELSE ok
            ELSE IF is_array(val)
            THEN IF size(val) > rule.n
                 THEN fail("Array size > " \o ToString(rule.n)) ELSE ok
            ELSE fail("Value has no length")
      [] rule.fn = "min_integer" ->
            IF ~is_number_integer(val) THEN fail("Not an integer")
            ELSE IF get_int(val) < rule.n
                 THEN fail("Integer < " \o ToString(rule.n)) ELSE ok
      [] rule.fn = "max_integer" ->
            IF ~is_number_integer(val) THEN fail("Not an integer")
            ELSE IF get_int(val) > rule.n
                 THEN fail("Integer > " \o ToString(rule.n)) ELSE ok
      [] rule.fn = "custom_fail" -> fail(rule.text)
      [] rule.fn = "regex" ->
            IF ~is_string(val) THEN fail("Not a string for regex")
            ELSE IF regex_error(rule.text)
            THEN fail("Invalid regex: " \o regex_error_what)
            ELSE IF ~regex_match(val.s, rule.text)
            THEN fail("Does not match regex: " \o rule.text)
            ELSE ok

(* An evaluation: the ValidationResult returned, the validate calls made   *)
(* (each named by the position of the validator called), and whether an    *)
(* exception left the call instead of a result.                            *)
Exec(res, calls, threw) == [res |-> res, calls |-> calls, threw |-> threw]

NoResult == ValidationResult(FALSE, "", "")

Thrown(calls) == Exec(NoResult, calls, TRUE)

RECURSIVE Validate(_, _, _)
RECURSIVE AndLoop(_, _, _, _, _)
RECURSIVE OrLoop(_, _, _, _, _, _)
RECURSIVE ObjectLoop(_, _, _, _, _)
RECURSIVE ArrayLoop(_, _, _, _, _)

(* a wrapped function that lets std::regex_error out *)
fn_throws_regex_error(rule, value) ==
    \/ rule.fn = "custom_throw"
    \/ rule.fn = "regex" /\ is_string(value) /\ regex_error(rule.text)

(* the wrapped function leaves by an exception: of the built-in ones none  *)
(* does, make_regex catches the std::regex_error of its pattern            *)
fn_throws(rule, value) == rule.fn = "custom_throw"

LambdaValidator_validate(rule, value, pos) ==
    IF fn_throws(rule, value) THEN Thrown(<<pos>>)
    ELSE Exec(ValidatorFn(rule, value), <<pos>>, FALSE)

(* conjunction that goes on to the remaining children after a failure *)
AndLoop_exhaustive(rule, value, pos, i, calls) ==
    IF i > Len(rule.children) THEN Exec(ok, calls, FALSE)
    ELSE LET e == Validate(rule.children[i], value, pos \o <<ToString(i - 1)>>)
         IN  IF e.threw THEN Thrown(calls \o e.calls)
             ELSE IF ~e.res.success
             THEN LET rest == AndLoop(rule, value, pos, i + 1,
                                      calls \o e.calls)
                  IN  IF rest.threw THEN rest
                      ELSE Exec(e.res, rest.calls, FALSE)
             ELSE AndLoop(rule, value, pos, i + 1, calls \o e.calls)

AndLoop(rule, value, pos, i, calls) ==
    IF i > Len(rule.children) THEN Exec(ok, calls, FALSE)
    ELSE LET e == Validate(rule.children[i], value, pos \o <<ToString(i - 1)>>)
         IN  IF e.threw THEN Thrown(calls \o e.calls)
             ELSE IF ~e.res.success THEN Exec(e.res, calls \o e.calls, FALSE)
             ELSE AndLoop(rule, value, pos, i + 1, calls \o e.calls)

AndValidator_validate(rule, value, pos) ==
    AndLoop(rule, value, pos, 1, <<pos>>)

RECURSIVE JoinErrors(_, _)

(* message assembly that writes the separator after the last error too *)
JoinErrors_trailing(errors, i) ==
    IF i > Len(errors) THEN ""
    ELSE errors[i] \o "; " \o JoinErrors(errors, i + 1)

JoinErrors(errors, i) ==
    IF i > Len(errors) THEN ""
    ELSE errors[i] \o (IF i + 1 <= Len(errors) THEN "; " ELSE "")
         \o JoinErrors(errors, i + 1)

(* disjunction that goes on to the remaining children after a success *)
OrLoop_exhaustive(rule, value, pos, i, calls, errors) ==
    IF i > Len(rule.children)
    THEN Exec(fail("None matched. Errors: " \o JoinErrors(errors, 1)),
              calls, FALSE)
    ELSE LET e == Validate(rule.children[i], value, pos \o <<ToString(i - 1)>>)
         IN  IF e.threw THEN Thrown(calls \o e.calls)
             ELSE IF e.res.success
             THEN LET rest == OrLoop(rule, value, pos, i + 1,
                                     calls \o e.calls, errors)
                  IN  IF rest.threw THEN rest
                      ELSE Exec(ok, rest.calls, FALSE)
             ELSE OrLoop(rule, value, pos, i + 1, calls \o e.calls,
                         Append(errors, e.res.error_message))

OrLoop(rule, value, pos, i, calls, errors) ==
    IF i > Len(rule.children)
    THEN Exec(fail("None matched. Errors: " \o JoinErrors(errors, 1)),
              calls, FALSE)
    ELSE LET e == Validate(rule.children[i], value, pos \o <<ToString(i - 1)>>)
         IN  IF e.threw THEN Thrown(calls \o e.calls)
             ELSE IF e.res.success THEN Exec(ok, calls \o e.calls, FALSE)
             ELSE OrLoop(rule, value, pos, i + 1, calls \o e.calls,
                         Append(errors, e.res.error_message))

OrValidator_validate(rule, value, pos) ==
    OrLoop(rule, value, pos, 1, <<pos>>, <<>>)

ObjectLoop(rule, value, pos, i, calls) ==
    IF i > Len(rule.names) THEN Exec(ok, calls, FALSE)
    ELSE LET field == rule.names[i]
         IN  IF ~contains(value, field)
             THEN ObjectLoop(rule, value, pos, i + 1, calls)
             ELSE LET e == Validate(rule.children[i], at_key(value, field),
                                    pos \o <<field>>)
                  IN  IF e.threw THEN Thrown(calls \o e.calls)
                      ELSE IF ~e.res.success
                      THEN Exec(prepend_path(e.res, field),
                                calls \o e.calls, FALSE)
                      ELSE ObjectLoop(rule, value, pos, i + 1,
                                      calls \o e.calls)

(* object validator that looks for the required names after the fields *)
ObjectValidator_validate_fields_first(rule, value, pos) ==
    IF ~is_object(value) THEN Exec(fail("Not an object"), <<pos>>, FALSE)
    ELSE LET e == ObjectLoop(rule, value, pos, 1, <<pos>>)
         IN  IF e.threw \/ ~e.res.success THEN e
             ELSE IF \E k \in 1..Len(rule.required_fields_) :
                         ~contains(value, rule.required_fields_[k])
             THEN Exec(fail("Required field not found"), e.calls, FALSE)
             ELSE e

ObjectValidator_validate(rule, value, pos) ==
    IF ~is_object(value) THEN Exec(fail("Not an object"), <<pos>>, FALSE)
    ELSE IF \E k \in 1..Len(rule.required_fields_) :
                ~contains(value, rule.required_fields_[k])
    THEN Exec(fail("Required field not found"), <<pos>>, FALSE)
    ELSE ObjectLoop(rule, value, pos, 1, <<pos>>)

ArrayLoop(rule, value, pos, i, calls) ==
    IF ~(i < size(value)) THEN Exec(ok, calls, FALSE)
    ELSE LET index == "[" \o ToString(i) \o "]"
             e == Validate(rule.children[1], at_index(value, i),
                           pos \o <<index>>)
         IN  IF e.threw THEN Thrown(calls \o e.calls)
             ELSE IF ~e.res.success
             THEN Exec(prepend_path(e.res, index), calls \o e.calls, FALSE)
             ELSE ArrayLoop(rule, value, pos, i + 1, calls \o e.calls)

(* array validator that looks at the number of elements after them *)
ArrayValidator_validate_elements_first(rule, value, pos) ==
    IF ~is_array(value) THEN Exec(fail("Not an array"), <<pos>>, FALSE)
    ELSE LET e == ArrayLoop(rule, value, pos, 0, <<pos>>)
         IN  IF e.threw \/ ~e.res.success THEN e
             ELSE IF rule.has_min /\ size(value) < rule.min_size_
             THEN Exec(fail("Array size < " \o ToString(rule.min_size_)),
                       e.calls, FALSE)
             ELSE IF rule.has_max /\ size(value) > rule.max_size_
             THEN Exec(fail("Array size > " \o ToString(rule.max_size_)),
                       e.calls, FALSE)
             ELSE e

ArrayValidator_validate(rule, value, pos) ==
    IF ~is_array(value) THEN Exec(fail("Not an array"), <<pos>>, FALSE)
    ELSE IF rule.has_min /\ size(value) < rule.min_size_
    THEN Exec(fail("Array size < " \o ToString(rule.min_size_)),
              <<pos>>, FALSE)
    ELSE IF rule.has_max /\ size(value) > rule.max_size_
    THEN Exec(fail("Array size > " \o ToString(rule.max_size_)),
              <<pos>>, FALSE)
    ELSE ArrayLoop(rule, value, pos, 0, <<pos>>)

(* ValidatableField::validate, dispatched on the dynamic type *)
Validate(rule, value, pos) ==
    CASE rule.kind = "Lambda" -> LambdaValidator_validate(rule, value, pos)
      [] rule.kind = "And" -> AndValidator_validate(rule, value, pos)
      [] rule.kind = "Or" -> OrValidator_validate(rule, value, pos)
      [] rule.kind = "Object" -> ObjectValidator_validate(rule, value, pos)
      [] rule.kind = "Array" -> ArrayValidator_validate(rule, value, pos)

-----------------------------------------------------------------------------
(* AbstractSchemaValidator *)

FieldSchemaEntry(name, validator, requirement) ==
    [name |-> name, validator |-> validator, requirement |-> requirement]

RECURSIVE SchemaLoop(_, _, _, _)
SchemaLoop(schema, j, i, calls) ==
    IF i > Len(schema) THEN Exec(ok, calls, FALSE)
    ELSE LET field_name == schema[i].name
             entry == schema[i]
         IN  IF contains(j, field_name)
             THEN LET e == Validate(entry.validator, at_key(j, field_name),
                                    <<field_name>>)
                  IN  IF e.threw THEN Thrown(calls \o e.calls)
                      ELSE IF ~e.res.success
                      THEN Exec(prepend_path(e.res, field_name),
                                calls \o e.calls, FALSE)
                      ELSE SchemaLoop(schema, j, i + 1, calls \o e.calls)
             ELSE IF entry.requirement = "Required"
                  THEN Exec(fail("Missing required field '" \o field_name
                                 \o "'"), calls, FALSE)
                  ELSE SchemaLoop(schema, j, i + 1, calls)

(* validate that never reports an absent field *)
validate_requirement_ignored(schema, j) ==
    IF ~is_object(j) THEN Exec(fail("Root is not an object"), <<>>, FALSE)
    ELSE SchemaLoop([k \in 1..Len(schema) |->
                        [schema[k] EXCEPT !.requirement = "Optional"]],
                    j, 1, <<>>)

(* validate that reports every absent field, Optional or not *)
validate_optional_enforced(schema, j) ==
    IF ~is_object(j) THEN Exec(fail("Root is not an object"), <<>>, FALSE)
    ELSE SchemaLoop([k \in 1..Len(schema) |->
                        [schema[k] EXCEPT !.requirement = "Required"]],
                    j, 1, <<>>)

(* validate without the check of the root's shape *)
validate_no_root_check(schema, j) == SchemaLoop(schema, j, 1, <<>>)

(* AbstractSchemaValidator::validate *)
validate(schema, j) ==
    IF ~is_object(j) THEN Exec(fail("Root is not an object"), <<>>, FALSE)
    ELSE SchemaLoop(schema, j, 1, <<>>)

HasField(schema, name) == \E k \in 1..Len(schema) : schema[k].name = name

EntryOf(schema, name) ==
    schema[CHOOSE k \in 1..Len(schema) : schema[k].name = name]

(* the sequence without its k-th element *)
RemoveAt(seq, k) == SubSeq(seq, 1, k - 1) \o SubSeq(seq, k + 1, Len(seq))

(* The iteration orders an unordered_map may have after a new entry went   *)
(* in: every arrangement of the old entries and the new one.               *)
RECURSIVE Arrangements(_)
Arrangements(entries) ==
    IF Len(entries) = 0 THEN {<<>>}
    ELSE UNION { { <<entries[k]>> \o rest :
                     rest \in Arrangements(RemoveAt(entries, k)) } :
                 k \in 1..Len(entries) }

(* schema_.emplace(name, entry): the possible maps afterwards *)
add_field_schema(schema, name, v, requirement) ==
    IF HasField(schema, name) THEN {schema}
    ELSE Arrangements(Append(schema, FieldSchemaEntry(name, v, requirement)))

-----------------------------------------------------------------------------
(* FieldBuilder *)

FieldBuilder(name) ==
    [open |-> TRUE, field_name_ |-> name, required_ |-> TRUE,
     validators_ |-> <<>>]

(* no FieldBuilder alive *)
NoBuilder ==
    [open |-> FALSE, field_name_ |-> "", required_ |-> TRUE,
     validators_ |-> <<>>]

(* done() that wraps a single validator in a conjunction as well *)
done_validator_always_and(b) ==
    IF Len(b.validators_) = 0 THEN make_always_valid
    ELSE AndValidator(b.validators_)

(* the validator done() hands to add_field_schema *)
done_validator(b) ==
    IF Len(b.validators_) = 0 THEN make_always_valid
    ELSE IF Len(b.validators_) = 1 THEN b.validators_[1]
    ELSE AndValidator(b.validators_)

done_requirement(b) == IF b.required_ THEN "Required" ELSE "Optional"

-----------------------------------------------------------------------------
(* Building a schema field by field, and validating documents against it *)

FieldNames == {"id", "tag"}

MinIntegerBounds == {0}

BuildDocs ==
    { JObj(<<>>, <<>>),
      JObj(<<"id">>, <<JStr("a")>>),
      JObj(<<"id">>, <<JInt(1)>>),
      JObj(<<"id", "tag">>, <<JInt(-1), JStr("a")>>) }

NoExec == Exec(NoResult, <<>>, FALSE)

(* what a StorageAdapter call gave back: an id, a row, nothing, or a       *)
(* DbError thrown to the caller                                            *)
Reply(op, error, id, row) == [op |-> op, error |-> error, id |-> id, row |-> row]

NoReply == Reply("none", FALSE, 0, <<>>)

(* nothing called yet, no thread inside validate, no table created *)
Idle ==
    /\ history = <<>>
    /\ threads = <<>>
    /\ schemas = <<>>
    /\ schemas_id_seq = 0
    /\ reply = NoReply

Init ==
    /\ schema_ = <<>>
    /\ builder = NoBuilder
    /\ json = NoJson
    /\ result = NoExec
    /\ Idle

(* AbstractSchemaValidator::field *)
AbstractSchemaValidator_field(name) ==
    /\ ~builder.open
    /\ builder' = FieldBuilder(name)
    /\ UNCHANGED <<schema_, json, result>>
    /\ UNCHANGED <<callers, storage>>

FieldBuilder_required ==
    /\ builder.open
    /\ builder' = [builder EXCEPT !.required_ = TRUE]
    /\ UNCHANGED <<schema_, json, result>>
    /\ UNCHANGED <<callers, storage>>

FieldBuilder_optional ==
    /\ builder.open
    /\ builder' = [builder EXCEPT !.required_ = FALSE]
    /\ UNCHANGED <<schema_, json, result>>
    /\ UNCHANGED <<callers, storage>>

FieldBuilder_validator(v) ==
    /\ builder.open
    /\ Len(builder.validators_) < MaxValidators
    /\ builder' = [builder EXCEPT !.validators_ = Append(@, v)]
    /\ UNCHANGED <<schema_, json, result>>
    /\ UNCHANGED <<callers, storage>>

FieldBuilder_is_string == FieldBuilder_validator(make_is_string)

FieldBuilder_min_integer ==
    \E min_val \in MinIntegerBounds :
        FieldBuilder_validator(make_min_integer(min_val))

FieldBuilder_done ==
    /\ builder.open
    /\ schema_' \in add_field_schema(schema_, builder.field_name_,
                                     done_validator(builder),
                                     done_requirement(builder))
    /\ builder' = NoBuilder
    /\ UNCHANGED <<json, result>>
    /\ UNCHANGED <<callers, storage>>

(* validate that moves the entries of the map while it reads them *)
ValidateCall_reordering(document) ==
    /\ json' = document
    /\ result' = validate(schema_, document)
    /\ schema_' = IF Len(schema_) = 0 THEN schema_
                  ELSE Append(Tail(schema_), Head(schema_))

(* one call validate(document): a const member function on a const         *)
(* reference, so it leaves the schema as it is and json is the document     *)
(* as it stands after the call                                              *)
ValidateCall(document) ==
    /\ json' = document
    /\ result' = validate(schema_, document)
    /\ schema_' = schema_

AbstractSchemaValidator_validate(documents) ==
    \E document \in documents :
        /\ ValidateCall(document)
        /\ UNCHANGED <<builder, callers, storage>>

Next ==
    \/ \E name \in FieldNames : AbstractSchemaValidator_field(name)
    \/ FieldBuilder_required
    \/ FieldBuilder_optional
    \/ FieldBuilder_is_string
    \/ FieldBuilder_min_integer
    \/ FieldBuilder_done
    \/ AbstractSchemaValidator_validate(BuildDocs)

Spec == Init /\ [][Next]_vars

-----------------------------------------------------------------------------
(* Validating documents against a schema that is already built: the schema *)
(* is any of those the builder produces from the validators below.         *)

Requirements == {"Required", "Optional"}

RECURSIVE SeqsOfLen(_, _)
SeqsOfLen(S, k) ==
    IF k = 0 THEN {<<>>}
    ELSE { Append(q, x) : q \in SeqsOfLen(S, k - 1), x \in S }

SeqsUpTo(S, n) == UNION { SeqsOfLen(S, k) : k \in 0..n }

ObjName == ObjectValidator(<<"name">>, <<make_non_empty_string>>, <<>>)

ObjCity == ObjectValidator(<<"city">>, <<make_non_empty_string>>, <<>>)

(* "addresses": an array of objects with a non-empty "city" *)
AddressesValidator ==
    ObjectValidator(<<"addresses">>,
                    <<ArrayValidator(ObjCity, FALSE, 0, FALSE, 0)>>, <<>>)

(* the value of "user" whose second address has an empty "city" *)
AddressesValue ==
    JObj(<<"addresses">>,
         <<JArr(<<JObj(<<"city">>, <<JStr("a")>>),
                  JObj(<<"city">>, <<JStr("")>>)>>)>>)

LeafRules ==
    { make_always_valid, make_is_string, make_non_empty_string,
      make_is_integer, make_is_boolean, make_is_array, make_is_object,
      make_min_length(1), make_max_length(1),
      make_min_integer(0), make_max_integer(0),
      custom_fail("x"), custom_fail("y"), custom_throw }

(* children handed to and_validator / or_validator *)
ChildRules ==
    { make_non_empty_string, custom_fail("x"), custom_fail("y"),
      custom_throw, ObjName }

ObjectRules ==
    { ObjName,
      ObjectValidator(<<"name">>, <<make_non_empty_string>>, <<"name">>),
      ObjectValidator(<<"name", "city">>,
                      <<make_non_empty_string, make_non_empty_string>>,
                      <<"name">>),
      ObjectValidator(<<"city", "name">>,
                      <<make_non_empty_string, make_non_empty_string>>,
                      <<"name">>),
      ObjectValidator(<<"user">>, <<ObjName>>, <<>>),
      AddressesValidator }

ArrayRules ==
    { ArrayValidator(make_min_integer(0), FALSE, 0, FALSE, 0),
      ArrayValidator(make_min_integer(0), TRUE, 1, FALSE, 0),
      ArrayValidator(make_min_integer(0), FALSE, 0, TRUE, 2),
      ArrayValidator(ObjCity, FALSE, 0, FALSE, 0) }

UserRules ==
    LeafRules
    \cup { AndValidator(c) : c \in SeqsUpTo(ChildRules, MaxValidators) }
    \cup { OrValidator(c) : c \in SeqsUpTo(ChildRules, MaxValidators) }
    \cup ObjectRules \cup ArrayRules

UserEntries ==
    { FieldSchemaEntry("user", v, r) : v \in UserRules, r \in Requirements }

IdEntries ==
    { FieldSchemaEntry("id", make_is_integer, r) : r \in Requirements }

BuiltSchemas ==
    {<<>>}
    \cup { <<e>> : e \in UserEntries \cup IdEntries }
    \cup { <<u, i>> : u \in UserEntries, i \in IdEntries }
    \cup { <<i, u>> : u \in UserEntries, i \in IdEntries }

UserValues ==
    { JStr(""), JStr("a"), JInt(1), JInt(-1), JInt(2^(IntBits - 1)),
      JBool(TRUE),
      JObj(<<>>, <<>>),
      JObj(<<"name">>, <<JStr("")>>),
      JObj(<<"name">>, <<JStr("a")>>),
      JObj(<<"city">>, <<JStr("")>>),
      JObj(<<"city", "name">>, <<JStr(""), JStr("")>>),
      JObj(<<"user">>, <<JObj(<<"name">>, <<JStr("")>>)>>),
      AddressesValue,
      JObj(<<"addresses">>, <<JArr(<<JObj(<<"city">>, <<JStr("a")>>)>>)>>),
      JArr(<<>>),
      JArr(<<JInt(1), JInt(2)>>),
      JArr(<<JInt(1), JInt(2), JInt(-1)>>) }

IdValues == { JInt(1), JStr("a") }

Documents ==
    { JObj(<<>>, <<>>) }
    \cup { JObj(<<"user">>, <<u>>) : u \in UserValues }
    \cup { JObj(<<"id">>, <<i>>) : i \in IdValues }
    \cup { JObj(<<"id", "user">>, <<i, u>>) : i \in IdValues, u \in UserValues }
    \cup { JArr(<<>>), JArr(<<JInt(1)>>), JStr("a"), JInt(1), JBool(TRUE),
           JNull }

InitBuilt ==
    /\ schema_ \in BuiltSchemas
    /\ builder = NoBuilder
    /\ json = NoJson
    /\ result = NoExec
    /\ Idle

NextBuilt == AbstractSchemaValidator_validate(Documents)

SpecBuilt == InitBuilt /\ [][NextBuilt]_vars

-----------------------------------------------------------------------------
(* Properties of building a schema (Spec) *)

(* a step of done(): the only step that ends a FieldBuilder *)
DoneStep == builder.open /\ ~builder'.open

EntriesNamed(schema, name) ==
    { k \in 1..Len(schema) : schema[k].name = name }

(* C1: re-declaring a field name overwrites the earlier entry: after a     *)
(* done() for a name the schema already holds, the schema holds exactly    *)
(* one entry for the name, and it carries the validator and requirement   *)
(* of this last declaration.                                               *)
C1_LastDeclarationWins ==
    [][(DoneStep /\ HasField(schema_, builder.field_name_)) =>
         /\ Cardinality(EntriesNamed(schema_', builder.field_name_)) = 1
         /\ EntryOf(schema_', builder.field_name_)
              = FieldSchemaEntry(builder.field_name_, done_validator(builder),
                                 done_requirement(builder))]_vars

SampleValues ==
    { JNull, JBool(FALSE), JInt(-1), JInt(1), JStr(""), JStr("a"),
      JArr(<<>>), JArr(<<JInt(1)>>), JObj(<<>>, <<>>),
      JObj(<<"id">>, <<JInt(1)>>) }

AcceptsEveryValue(rule) ==
    \A v \in SampleValues :
        LET e == Validate(rule, v, <<>>) IN ~e.threw /\ e.res = ok

(* C9: done() for a name the schema does not hold yet installs, for zero    *)
(* accumulated validators, a validator accepting every value; for one, that *)
(* validator itself; for two or more, the conjunction of them in           *)
(* declaration order.  The entry is Required unless the builder's flag was *)
(* cleared by optional(), and a new builder starts with the flag set.      *)
C9_BuilderFinalization ==
    [][/\ (~builder.open /\ builder'.open) => builder'.required_
       /\ (DoneStep /\ ~HasField(schema_, builder.field_name_)) =>
            LET n == builder.field_name_
                vs == builder.validators_
                entry == EntryOf(schema_', n)
            IN  /\ Cardinality(EntriesNamed(schema_', n)) = 1
                /\ Len(schema_') = Len(schema_) + 1
                /\ Len(vs) = 0 => AcceptsEveryValue(entry.validator)
                /\ Len(vs) = 1 => entry.validator = vs[1]
                /\ Len(vs) >= 2 => /\ entry.validator.kind = "And"
                                   /\ entry.validator.children = vs
                /\ entry.requirement =
                     (IF builder.required_ THEN "Required" ELSE "Optional")]_vars

(* C9 witness: a Required field finalized with no validator, whose value   *)
(* in the document was accepted, next to an Optional field finalized with  *)
(* two validators.                                                         *)
C9_Witness ==
    /\ Len(schema_) = 2
    /\ \E k \in 1..2 :
          /\ schema_[k].validator = make_always_valid
          /\ schema_[k].requirement = "Required"
          /\ contains(json, schema_[k].name)
          /\ \E c \in 1..Len(result.calls) :
                result.calls[c] = <<schema_[k].name>>
    /\ \E k \in 1..2 :
          /\ schema_[k].validator
                = AndValidator(<<make_min_integer(0), make_is_string>>)
          /\ schema_[k].requirement = "Optional"
    /\ result.res.success

-----------------------------------------------------------------------------
(* Properties of validate on a built schema (SpecBuilt) *)

(* validate has returned (or thrown) for the document in json *)
Validated == json # NoJson

(* the entry raises no violation on document j *)
FieldPasses(entry, j) ==
    IF contains(j, entry.name)
    THEN LET e == Validate(entry.validator, at_key(j, entry.name),
                           <<entry.name>>)
         IN  ~e.threw /\ e.res.success
    ELSE entry.requirement = "Optional"

(* C2: validate on an object document that lacks a Required field of the   *)
(* schema returns a failure; when every other field passes, the failure is *)
(* "Missing required field '<name>'" with an empty path.                   *)
C2_RequiredOmissionFails ==
    (Validated /\ is_object(json)) =>
        \A k \in 1..Len(schema_) :
            (schema_[k].requirement = "Required"
               /\ ~contains(json, schema_[k].name)) =>
                /\ ~result.threw => ~result.res.success
                /\ (\A o \in 1..Len(schema_) :
                       o # k => FieldPasses(schema_[o], json)) =>
                      /\ ~result.threw
                      /\ result.res =
                           ValidationResult(FALSE,
                               "Missing required field '" \o schema_[k].name
                                   \o "'", "")

(* C2 witness: "id" is Required and absent, "user" was validated before it *)
(* and passed.                                                             *)
C2_Witness ==
    /\ schema_ = <<FieldSchemaEntry("user", make_is_string, "Required"),
                   FieldSchemaEntry("id", make_is_integer, "Required")>>
    /\ json = JObj(<<"user">>, <<JStr("a")>>)
    /\ result = Exec(fail("Missing required field 'id'"), <<<<"user">>>>,
                     FALSE)

(* C3: an absent Optional field never causes a failure: validate returns   *)
(* what it returns for the schema without that field; a schema whose only  *)
(* field is Optional and absent succeeds.                                  *)
C3_OptionalOmissionNeutral ==
    (Validated /\ is_object(json)) =>
        \A k \in 1..Len(schema_) :
            (schema_[k].requirement = "Optional"
               /\ ~contains(json, schema_[k].name)) =>
                LET without == validate(RemoveAt(schema_, k), json)
                IN  /\ result.res = without.res
                    /\ result.threw = without.threw
                    /\ Len(schema_) = 1 => (result.res = ok /\ ~result.threw)

(* C3 witness: the Optional "user" would fail on any value, is absent, and *)
(* the document passes.                                                    *)
C3_Witness ==
    /\ schema_ = <<FieldSchemaEntry("user", custom_fail("x"), "Optional"),
                   FieldSchemaEntry("id", make_is_integer, "Required")>>
    /\ json = JObj(<<"id">>, <<JInt(1)>>)
    /\ result.res = ok

(* C10: validate on a document that is not an object fails with "Root is   *)
(* not an object" and an empty path, whatever the schema, and calls no     *)
(* validator.                                                              *)
C10_RootNotObject ==
    (Validated /\ ~is_object(json)) =>
        result = Exec(ValidationResult(FALSE, "Root is not an object", ""),
                      <<>>, FALSE)

(* C10 witness: an array document against a schema with a Required field   *)
C10_Witness ==
    /\ json = JArr(<<JInt(1)>>)
    /\ \E k \in 1..Len(schema_) : schema_[k].requirement = "Required"
    /\ result.res.error_message = "Root is not an object"

(* the message validate gives for an absent Required field *)
IsMissingFieldMessage(msg) ==
    \E k \in 1..Len(schema_) :
        msg = "Missing required field '" \o schema_[k].name \o "'"

(* validators made of object validators and lambdas only *)
RECURSIVE IsObjectTree(_)
IsObjectTree(rule) ==
    \/ rule.kind = "Lambda"
    \/ /\ rule.kind = "Object"
       /\ \A c \in 1..Len(rule.children) : IsObjectTree(rule.children[c])

(* the names of a position, outermost first, joined by dots *)
RECURSIVE DotJoin(_)
DotJoin(names) ==
    IF Len(names) = 0 THEN ""
    ELSE IF Len(names) = 1 THEN names[1]
    ELSE names[1] \o "." \o DotJoin(Tail(names))

LastCall == result.calls[Len(result.calls)]

OthersPass(name) ==
    \A o \in 1..Len(schema_) :
        schema_[o].name # name => FieldPasses(schema_[o], json)

(* C4: a failure inside nested object fields carries the field names from  *)
(* the outermost to the innermost joined by dots: the path is the dotted   *)
(* position of the last validator called; no separator is written next to  *)
(* an empty side, and prefixing leaves a success unchanged.  For "user" as *)
(* an object with "name" as non-empty string, {"user": {"name": ""}} fails *)
(* with path "user.name".                                                  *)
C4_ObjectPath ==
    Validated =>
        /\ (~result.threw /\ result.res.success) =>
              /\ result.res = ok
              /\ prepend_path(result.res, "user") = result.res
        /\ prepend_path(result.res, "") = result.res
        /\ (is_object(json) /\ ~result.threw /\ ~result.res.success
              /\ ~IsMissingFieldMessage(result.res.error_message)) =>
              (IsObjectTree(EntryOf(schema_, LastCall[1]).validator) =>
                   result.res.path = DotJoin(LastCall))
        /\ (/\ json = JObj(<<"user">>, <<JObj(<<"name">>, <<JStr("")>>)>>)
            /\ HasField(schema_, "user")
            /\ EntryOf(schema_, "user").validator = ObjName
            /\ OthersPass("user")) =>
              result = Exec(ValidationResult(FALSE, "Empty string",
                                             "user.name"),
                            <<<<"user">>, <<"user", "name">>>>, FALSE)

(* C4 witness: two object validators deep, the failure at "user.user.name" *)
C4_Witness ==
    /\ HasField(schema_, "user")
    /\ EntryOf(schema_, "user").validator
          = ObjectValidator(<<"user">>, <<ObjName>>, <<>>)
    /\ json = JObj(<<"user">>,
                   <<JObj(<<"user">>, <<JObj(<<"name">>, <<JStr("")>>)>>)>>)
    /\ result.res = ValidationResult(FALSE, "Empty string", "user.user.name")

(* C5: a failure in element 1 of the array under "addresses" of the object *)
(* under "user", at the element's field "city", is reported with the path  *)
(* user.addresses[1].city.                                                 *)
C5_ArrayElementPath ==
    (/\ json = JObj(<<"user">>, <<AddressesValue>>)
     /\ HasField(schema_, "user")
     /\ EntryOf(schema_, "user").validator = AddressesValidator
     /\ OthersPass("user")) =>
        (~result.res.success /\ result.res.path = "user.addresses[1].city")

Called(pos) == \E c \in 1..Len(result.calls) : result.calls[c] = pos

CalledUnder(pos) ==
    \E c \in 1..Len(result.calls) :
        /\ Len(result.calls[c]) >= Len(pos)
        /\ SubSeq(result.calls[c], 1, Len(pos)) = pos

FirstCall(pos) ==
    CHOOSE c \in 1..Len(result.calls) :
        /\ result.calls[c] = pos
        /\ \A b \in 1..(c - 1) : result.calls[b] # pos

(* child i of the validator of schema entry k, evaluated on its own *)
ChildExec(k, i) ==
    Validate(schema_[k].validator.children[i], at_key(json, schema_[k].name),
             <<schema_[k].name, ToString(i - 1)>>)

ChildPasses(k, i) == ~ChildExec(k, i).threw /\ ChildExec(k, i).res.success

ChildFails(k, i) == ~ChildExec(k, i).threw /\ ~ChildExec(k, i).res.success

ChildPos(k, i) == <<schema_[k].name, ToString(i - 1)>>

(* entry k holds a validator of the kind and validate reached it *)
Reached(k, kind) ==
    /\ Validated /\ is_object(json)
    /\ schema_[k].validator.kind = kind
    /\ Called(<<schema_[k].name>>)

UnderField(name, path) ==
    IF path = "" THEN name ELSE name \o "." \o path

(* C6: a conjunction evaluates its children in declaration order and stops *)
(* at the first failing child: its outcome is that child's failure, same   *)
(* message and same path (only the schema adds its field name), no later   *)
(* child is called, and it succeeds only if every child succeeds.          *)
C6_ConjunctionFailFast ==
    \A k \in 1..Len(schema_) :
        Reached(k, "And") =>
            LET n == Len(schema_[k].validator.children) IN
            /\ \A i \in 1..n :
                  (ChildFails(k, i) /\ \A h \in 1..(i - 1) : ChildPasses(k, h))
                  => /\ ~result.threw
                     /\ result.res =
                          ValidationResult(FALSE,
                              ChildExec(k, i).res.error_message,
                              UnderField(schema_[k].name,
                                         ChildExec(k, i).res.path))
                     /\ \A h \in 1..i : Called(ChildPos(k, h))
                     /\ \A h \in 1..(i - 1) :
                           FirstCall(ChildPos(k, h))
                               < FirstCall(ChildPos(k, h + 1))
                     /\ \A h \in (i + 1)..n : ~CalledUnder(ChildPos(k, h))
            /\ (\A i \in 1..n : ChildPasses(k, i)) =>
                  /\ \A i \in 1..n : Called(ChildPos(k, i))
                  /\ Len(schema_) = 1 => (result.res = ok /\ ~result.threw)
            /\ (~result.threw /\ result.res.success) =>
                  \A i \in 1..n : ChildPasses(k, i)

(* C6 witness: the first child fails inside an object (path "name"), the   *)
(* second would throw if called.                                           *)
C6_Witness ==
    /\ schema_ = <<FieldSchemaEntry("user",
                       AndValidator(<<ObjName, custom_throw>>), "Required")>>
    /\ json = JObj(<<"user">>, <<JObj(<<"name">>, <<JStr("")>>)>>)
    /\ result.res = ValidationResult(FALSE, "Empty string", "user.name")
    /\ ~result.threw

(* C7: a disjunction evaluates its children in declaration order and       *)
(* returns success at the first child that succeeds: no later child is     *)
(* called, whatever it would do.                                           *)
C7_DisjunctionShortCircuit ==
    \A k \in 1..Len(schema_) :
        Reached(k, "Or") =>
            LET n == Len(schema_[k].validator.children)
                own == Validate(schema_[k].validator,
                                at_key(json, schema_[k].name),
                                <<schema_[k].name>>)
            IN  \A i \in 1..n :
                  (ChildPasses(k, i) /\ \A h \in 1..(i - 1) : ChildFails(k, h))
                  => /\ own.res = ok /\ ~own.threw
                     /\ \A h \in 1..i : Called(ChildPos(k, h))
                     /\ \A h \in 1..(i - 1) :
                           FirstCall(ChildPos(k, h))
                               < FirstCall(ChildPos(k, h + 1))
                     /\ \A h \in (i + 1)..n : ~CalledUnder(ChildPos(k, h))
                     /\ Len(schema_) = 1 => (result.res = ok /\ ~result.threw)

(* C7 witness: the first child succeeds, the second would throw if called  *)
C7_Witness ==
    /\ schema_ = <<FieldSchemaEntry("user",
                       OrValidator(<<make_non_empty_string, custom_throw>>),
                       "Required")>>
    /\ json = JObj(<<"user">>, <<JStr("a")>>)
    /\ result = Exec(ok, <<<<"user">>, <<"user", "0">>>>, FALSE)

(* the messages joined by "; " *)
RECURSIVE SemicolonJoined(_)
SemicolonJoined(msgs) ==
    IF Len(msgs) = 0 THEN ""
    ELSE IF Len(msgs) = 1 THEN msgs[1]
    ELSE SemicolonJoined(SubSeq(msgs, 1, Len(msgs) - 1))
         \o "; " \o msgs[Len(msgs)]

(* C8: when every child of a disjunction fails, the disjunction fails with *)
(* "None matched. Errors: " followed by the children's messages in         *)
(* declaration order joined by "; ", and with an empty path of its own     *)
(* (the schema adds its field name only): the children's paths are gone.   *)
C8_DisjunctionAggregate ==
    \A k \in 1..Len(schema_) :
        Reached(k, "Or") =>
            LET n == Len(schema_[k].validator.children)
                msgs == [i \in 1..n |-> ChildExec(k, i).res.error_message]
            IN  (\A i \in 1..n : ChildFails(k, i)) =>
                  /\ ~result.threw
                  /\ result.res =
                       ValidationResult(FALSE,
                           "None matched. Errors: " \o SemicolonJoined(msgs),
                           schema_[k].name)
                  /\ schema_[k].validator.children
                        = <<custom_fail("x"), custom_fail("y")>>
                     => result.res.error_message
                            = "None matched. Errors: x; y"

(* C8 witness: the first child fails with path "name", the second with "x" *)
C8_Witness ==
    /\ HasField(schema_, "user")
    /\ EntryOf(schema_, "user").validator
          = OrValidator(<<ObjName, custom_fail("x")>>)
    /\ json = JObj(<<"user">>, <<JObj(<<"name">>, <<JStr("")>>)>>)
    /\ result.res = ValidationResult(FALSE,
                        "None matched. Errors: Empty string; x", "user")

-----------------------------------------------------------------------------
(* Calling validate again and again on one built schema.  history keeps    *)
(* every call made so far: the document handed in and what came back.      *)

(* Most calls made on one schema *)
MaxCalls == 3

Call(document, outcome) == [document |-> document, outcome |-> outcome]

RepeatRules ==
    { custom_fail("x"), custom_throw, AddressesValidator,
      OrValidator(<<custom_fail("x"), custom_fail("y")>>) }

RepeatSchemas ==
    LET users == { FieldSchemaEntry("user", v, r) :
                     v \in RepeatRules, r \in Requirements }
    IN  { <<u, i>> : u \in users, i \in IdEntries }
        \cup { <<i, u>> : u \in users, i \in IdEntries }

RepeatDocs ==
    { JObj(<<>>, <<>>),
      JObj(<<"user">>, <<JStr("a")>>),
      JObj(<<"id", "user">>, <<JStr("a"), AddressesValue>>),
      JObj(<<"id", "user">>, <<JInt(1), JStr("a")>>) }

InitRepeat ==
    /\ schema_ \in RepeatSchemas
    /\ builder = NoBuilder
    /\ json = NoJson
    /\ result = NoExec
    /\ Idle

AbstractSchemaValidator_validate_again(documents) ==
    /\ Len(history) < MaxCalls
    /\ \E document \in documents :
          /\ ValidateCall(document)
          /\ history' = Append(history, Call(document, result'))
          /\ UNCHANGED <<builder, threads, storage>>

NextRepeat == AbstractSchemaValidator_validate_again(RepeatDocs)

SpecRepeat == InitRepeat /\ [][NextRepeat]_vars

-----------------------------------------------------------------------------
(* Several threads inside validate of one built schema at once.  A call    *)
(* is a stack of activations of ValidatableField::validate under one       *)
(* activation of AbstractSchemaValidator::validate; a step is what one     *)
(* activation does up to its next call or return.                          *)

(* Most threads calling validate at once *)
MaxThreads == 2

(* An activation: the validator called, its argument, the number i of the  *)
(* child or element last called (0: none yet), the local errors of         *)
(* OrValidator::validate, and what the last call returned, while not yet   *)
(* looked at.                                                              *)
Frame(rule, value, i, errors, got) ==
    [i |-> i, rule |-> rule, value |-> value, errors |-> errors, got |-> got]

Enter(rule, value) == Frame(rule, value, 0, <<>>, <<>>)

(* stands for the AbstractSchemaValidator in the outermost activation *)
SchemaRoot == Rule("Schema", "", 0, "", <<>>, <<>>, <<>>, FALSE, 0, FALSE, 0)

(* a thread's call: its document, the result once validate has returned,   *)
(* and the activations it is in, outermost first                           *)
Thread(document, outcome, stack) ==
    [document |-> document, outcome |-> outcome, stack |-> stack]

(* what a step of an activation does: return res, call callee and go on    *)
(* as frame, or push message onto errors                                   *)
Returns(r) == <<"return", r>>
Calls(frame, callee) == <<"call", frame, callee>>
Pushes(message) == <<"push", message>>

Failed(f) == f.got # <<>> /\ ~f.got[1].success

LambdaStep(f) == Returns(ValidatorFn(f.rule, f.value))

AndStep(f) ==
    IF Failed(f) THEN Returns(f.got[1])
    ELSE IF f.i + 1 > Len(f.rule.children) THEN Returns(ok)
    ELSE Calls([f EXCEPT !.i = f.i + 1, !.got = <<>>],
               Enter(f.rule.children[f.i + 1], f.value))

OrStep(f) ==
    IF f.got # <<>>
    THEN IF f.got[1].success THEN Returns(ok)
         ELSE Pushes(f.got[1].error_message)
    ELSE IF f.i + 1 > Len(f.rule.children)
    THEN Returns(fail("None matched. Errors: " \o JoinErrors(f.errors, 1)))
    ELSE Calls([f EXCEPT !.i = f.i + 1],
               Enter(f.rule.children[f.i + 1], f.value))

(* the rest of the loop over schema_, from the field after f.i *)
ObjectNext(f) ==
    LET present == { j \in (f.i + 1)..Len(f.rule.names) :
                       contains(f.value, f.rule.names[j]) }
    IN  IF present = {} THEN Returns(ok)
        ELSE LET j == CHOOSE m \in present : \A n \in present : m <= n
             IN  Calls([f EXCEPT !.i = j, !.got = <<>>],
                       Enter(f.rule.children[j],
                             at_key(f.value, f.rule.names[j])))

ObjectStep(f) ==
    IF Failed(f) THEN Returns(prepend_path(f.got[1], f.rule.names[f.i]))
    ELSE IF f.i > 0 THEN ObjectNext(f)
    ELSE IF ~is_object(f.value) THEN Returns(fail("Not an object"))
    ELSE IF \E k \in 1..Len(f.rule.required_fields_) :
                ~contains(f.value, f.rule.required_fields_[k])
    THEN Returns(fail("Required field not found"))
    ELSE ObjectNext(f)

ArrayNext(f) ==
    IF ~(f.i < size(f.value)) THEN Returns(ok)
    ELSE Calls([f EXCEPT !.i = f.i + 1, !.got = <<>>],
               Enter(f.rule.children[1], at_index(f.value, f.i)))

ArrayStep(f) ==
    IF Failed(f)
    THEN Returns(prepend_path(f.got[1], "[" \o ToString(f.i - 1) \o "]"))
    ELSE IF f.i > 0 THEN ArrayNext(f)
    ELSE IF ~is_array(f.value) THEN Returns(fail("Not an array"))
    ELSE IF f.rule.has_min /\ size(f.value) < f.rule.min_size_
    THEN Returns(fail("Array size < " \o ToString(f.rule.min_size_)))
    ELSE IF f.rule.has_max /\ size(f.value) > f.rule.max_size_
    THEN Returns(fail("Array size > " \o ToString(f.rule.max_size_)))
    ELSE ArrayNext(f)

(* the rest of the loop of AbstractSchemaValidator::validate over schema,  *)
(* from entry j on                                                         *)
RECURSIVE SchemaNext(_, _, _)
SchemaNext(schema, f, j) ==
    IF j > Len(schema) THEN Returns(ok)
    ELSE IF contains(f.value, schema[j].name)
    THEN Calls([f EXCEPT !.i = j, !.got = <<>>],
               Enter(schema[j].validator, at_key(f.value, schema[j].name)))
    ELSE IF schema[j].requirement = "Required"
    THEN Returns(fail("Missing required field '" \o schema[j].name \o "'"))
    ELSE SchemaNext(schema, f, j + 1)

SchemaStep(schema, f) ==
    IF Failed(f) THEN Returns(prepend_path(f.got[1], schema[f.i].name))
    ELSE IF f.i > 0 THEN SchemaNext(schema, f, f.i + 1)
    ELSE IF ~is_object(f.value) THEN Returns(fail("Root is not an object"))
    ELSE SchemaNext(schema, f, 1)

FrameStep(schema, f) ==
    CASE f.rule.kind = "Schema" -> SchemaStep(schema, f)
      [] f.rule.kind = "Lambda" -> LambdaStep(f)
      [] f.rule.kind = "And" -> AndStep(f)
      [] f.rule.kind = "Or" -> OrStep(f)
      [] f.rule.kind = "Object" -> ObjectStep(f)
      [] f.rule.kind = "Array" -> ArrayStep(f)


Top(th) == th.stack[Len(th.stack)]

(* errors kept as a member of the OrValidator: a push reaches every        *)
(* activation of the same validator, whichever thread it belongs to        *)
errors_push_back_member(ths, t, message) ==
    LET rule == Top(ths[t]).rule
    IN  [u \in 1..Len(ths) |->
            [ths[u] EXCEPT !.stack =
                [d \in 1..Len(ths[u].stack) |->
                    LET f == ths[u].stack[d]
                        g == IF f.rule = rule
                             THEN [f EXCEPT !.errors = Append(@, message)]
                             ELSE f
                    IN  IF u = t /\ d = Len(ths[t].stack)
                        THEN [g EXCEPT !.got = <<>>] ELSE g]]]

(* errors.push_back(result.error_message) on the vector local to thread    *)
(* t's innermost activation                                                *)
errors_push_back(ths, t, message) ==
    [ths EXCEPT ![t].stack[Len(ths[t].stack)] =
        [@ EXCEPT !.errors = Append(@, message), !.got = <<>>]]

(* the innermost activation of thread t returns r to its caller, or to the *)
(* caller of validate                                                      *)
Return(ths, t, r) ==
    LET depth == Len(ths[t].stack)
    IN  IF depth = 1
        THEN [ths EXCEPT ![t] = Thread(ths[t].document, r, <<>>)]
        ELSE [ths EXCEPT ![t].stack =
                 [SubSeq(@, 1, depth - 1) EXCEPT ![depth - 1].got = <<r>>]]

(* the threads after one step of thread t *)
StepThread(schema, ths, t) ==
    LET depth == Len(ths[t].stack)
        step == FrameStep(schema, Top(ths[t]))
    IN  CASE step[1] = "return" -> Return(ths, t, step[2])
          [] step[1] = "call" ->
                [ths EXCEPT ![t].stack =
                    Append([@ EXCEPT ![depth] = step[2]], step[3])]
          [] step[1] = "push" -> errors_push_back(ths, t, step[2])

Running(t) == threads[t].stack # <<>>

ConcurrentRules ==
    { OrValidator(<<make_is_integer, make_non_empty_string>>),
      AndValidator(<<make_is_string, make_min_length(1)>>),
      AddressesValidator }

ConcurrentSchemas ==
    UNION { { <<FieldSchemaEntry("user", v, "Required")>>,
              <<FieldSchemaEntry("user", v, "Required"),
                FieldSchemaEntry("id", make_is_integer, "Optional")>>,
              <<FieldSchemaEntry("id", make_is_integer, "Required"),
                FieldSchemaEntry("user", v, "Optional")>> }
            : v \in ConcurrentRules }

ConcurrentDocs ==
    { JObj(<<"user">>, <<JStr("")>>),
      JObj(<<"user">>, <<JBool(TRUE)>>),
      JObj(<<"id", "user">>, <<JInt(1), JStr("a")>>),
      JObj(<<"user", "id">>, <<AddressesValue, JStr("a")>>) }

InitConcurrent ==
    /\ schema_ \in ConcurrentSchemas
    /\ builder = NoBuilder
    /\ json = NoJson
    /\ result = NoExec
    /\ history = <<>>
    /\ \E n \in 2..MaxThreads :
          threads \in
              { [t \in 1..n |-> Thread(docs[t], NoResult,
                                       <<Enter(SchemaRoot, docs[t])>>)]
                : docs \in SeqsOfLen(ConcurrentDocs, n) }
    /\ schemas = <<>>
    /\ schemas_id_seq = 0
    /\ reply = NoReply

(* one thread goes on inside its call of validate to its next call or      *)
(* return                                                                  *)
AbstractSchemaValidator_validate_step(t) ==
    /\ Running(t)
    /\ threads' = StepThread(schema_, threads, t)
    /\ UNCHANGED <<schema_, builder, json, result, history, storage>>

NextConcurrent ==
    \E t \in 1..Len(threads) : AbstractSchemaValidator_validate_step(t)

SpecConcurrent == InitConcurrent /\ [][NextConcurrent]_vars

(* C12: while two or more threads are inside validate of one built schema  *)
(* on their own documents, in whatever order their steps come, no step     *)
(* changes the schema or another thread's call, and every call that has    *)
(* returned returned what validate gives for its document on its own.      *)
C12_ConcurrentCallsIndependent ==
    [][ /\ schema_' = schema_
        /\ \E t \in 1..Len(threads) :
              \A u \in 1..Len(threads) : u # t => threads'[u] = threads[u]
        /\ \A t \in 1..Len(threads) :
              ~Running(t)' =>
                  /\ ~validate(schema_, threads[t].document).threw
                  /\ threads'[t].outcome
                       = validate(schema_, threads[t].document).res ]_vars

(* two threads are inside the same OrValidator at once, each holding an    *)
(* error of its own, and a third call has nothing to do with it            *)
C12_Witness ==
    /\ Len(threads) >= 2
    /\ Running(1) /\ Running(2)
    /\ threads[1].document # threads[2].document
    /\ Top(threads[1]).rule.kind = "Or" /\ Top(threads[2]).rule.kind = "Or"
    /\ Top(threads[1]).errors = <<"Not an integer">>
    /\ Top(threads[2]).errors = <<"Not an integer">>
    /\ Top(threads[1]).got # <<>> /\ Top(threads[2]).got # <<>>

-----------------------------------------------------------------------------
(* Declaring fields with matches_regex and validating against them *)

Patterns == {"a", "("}

RegexDocs ==
    { JObj(<<>>, <<>>),
      JObj(<<"tag">>, <<JStr("a")>>),
      JObj(<<"tag">>, <<JInt(1)>>),
      JObj(<<"id", "tag">>, <<JStr("b"), JStr("a")>>) }

FieldBuilder_matches_regex(pattern) ==
    FieldBuilder_validator(make_regex(pattern))

NextRegex ==
    \/ \E name \in FieldNames : AbstractSchemaValidator_field(name)
    \/ FieldBuilder_required
    \/ FieldBuilder_optional
    \/ \E pattern \in Patterns : FieldBuilder_matches_regex(pattern)
    \/ FieldBuilder_done
    \/ AbstractSchemaValidator_validate(RegexDocs)

SpecRegex == Init /\ [][NextRegex]_vars

(* the validators matches_regex accumulated, as done() installed them *)
RegexesOf(validator) ==
    IF validator.kind = "And" THEN validator.children
    ELSE IF validator.fn = "regex" THEN <<validator>> ELSE <<>>

(* C13: a pattern that does not compile is no error when the field is      *)
(* declared and no exception out of validate.  done() after                *)
(* matches_regex(p) installs the field whether p compiles or not; validate *)
(* never throws; for a field whose first pattern does not compile, a       *)
(* string value fails at that field with "Invalid regex: ..." and any      *)
(* other value with "Not a string for regex", when the other fields pass.  *)
C13_MalformedRegexIsFailure ==
    [][ /\ (DoneStep /\ ~HasField(schema_, builder.field_name_)) =>
              /\ HasField(schema_', builder.field_name_)
              /\ RegexesOf(EntryOf(schema_', builder.field_name_).validator)
                   = builder.validators_
        /\ (json' # json \/ result' # result) =>
              /\ ~result'.threw
              /\ \A k \in 1..Len(schema_) :
                    LET name == schema_[k].name
                        regexes == RegexesOf(schema_[k].validator)
                    IN  (/\ contains(json', name)
                         /\ Len(regexes) > 0
                         /\ regex_error(regexes[1].text)
                         /\ \A o \in 1..Len(schema_) :
                               o # k => FieldPasses(schema_[o], json')) =>
                           result'.res =
                             ValidationResult(FALSE,
                               IF is_string(at_key(json', name))
                               THEN "Invalid regex: " \o regex_error_what
                               ELSE "Not a string for regex",
                               name) ]_vars

(* C13 witness: "tag" was declared with "(" and "a" and installed; the     *)
(* string "a" failed at "tag" on the pattern that does not compile         *)
C13_Witness ==
    /\ HasField(schema_, "tag")
    /\ EntryOf(schema_, "tag").validator
          = AndValidator(<<make_regex("("), make_regex("a")>>)
    /\ json = JObj(<<"tag">>, <<JStr("a")>>)
    /\ result.res = ValidationResult(FALSE, "Invalid regex: regex_error", "tag")
    /\ ~result.threw

-----------------------------------------------------------------------------
(* Integer bounds (SpecBuilt) *)

(* C14: for a field checked by min_integer(n) or max_integer(n) alone, an  *)
(* integer value v of the document, whether or not an int can hold it,     *)
(* fails exactly when v < n, respectively v > n; a value that is not an    *)
(* integer fails with "Not an integer" at the field.                       *)
C14_IntegerBounds ==
    Validated =>
        \A k \in 1..Len(schema_) :
            LET name == schema_[k].name
                rule == schema_[k].validator
            IN  (/\ rule.kind = "Lambda"
                 /\ rule.fn \in {"min_integer", "max_integer"}
                 /\ contains(json, name)
                 /\ OthersPass(name)) =>
                    LET v == at_key(json, name)
                    IN  /\ ~result.threw
                        /\ IF ~is_number_integer(v)
                           THEN result.res =
                                  ValidationResult(FALSE, "Not an integer",
                                                   name)
                           ELSE result.res.success =
                                  IF rule.fn = "min_integer"
                                  THEN ~(v.i < rule.n) ELSE ~(v.i > rule.n)

-----------------------------------------------------------------------------
(* StorageAdapter: the schemas table *)

(* struct Schema, and a row of the table schemas; created_at is left out *)
Schema(name, id, version, definition) ==
    [name |-> name, id |-> id, version |-> version, definition |-> definition]

(* the text PostgreSQL gives for a JSONB value *)
RECURSIVE jsonb_out(_)
RECURSIVE jsonb_out_members(_, _)
jsonb_out_members(v, k) ==
    IF k > Len(v.kids) THEN ""
    ELSE (IF is_object(v) THEN "\"" \o v.keys[k] \o "\": " ELSE "")
         \o jsonb_out(v.kids[k])
         \o (IF k < Len(v.kids) THEN ", " ELSE "")
         \o jsonb_out_members(v, k + 1)

jsonb_out(v) ==
    CASE v.t = "null" -> "null"
      [] v.t = "boolean" -> IF v.b THEN "true" ELSE "false"
      [] v.t = "integer" -> ToString(v.i)
      [] v.t = "string" -> "\"" \o v.s \o "\""
      [] v.t = "array" -> "[" \o jsonb_out_members(v, 1) \o "]"
      [] v.t = "object" -> "{" \o jsonb_out_members(v, 1) \o "}"

(* the rows WHERE name = $1 AND version = $2 *)
RowsOf(rows, name, version) ==
    { k \in 1..Len(rows) : rows[k].name = name /\ rows[k].version = version }

(* the row mapper of get_schema: definition is assigned the column's text  *)
(* as a std::string, which makes it a JSON string                          *)
RowMapper(row) ==
    Schema(row.name, row.id, row.version, JStr(jsonb_out(row.definition)))

SchemaNames == {"s"}

SchemaVersions == {1, 2}

SchemaDefinitions ==
    { JObj(<<"v">>, <<JInt(1)>>), JObj(<<"v">>, <<JInt(2)>>) }

InitStorage ==
    /\ schema_ = <<>>
    /\ builder = NoBuilder
    /\ json = NoJson
    /\ result = NoExec
    /\ Idle

(* INSERT INTO schemas ... RETURNING id on a table with UNIQUE(name,        *)
(* version): the id is drawn from the sequence, then a row with the same   *)
(* pair makes the statement fail, and exec_scalar's DbError is rethrown.   *)
(* The call is recorded in history: what was passed and what came back.    *)
StorageAdapter_add_schema(name, version, definition) ==
    /\ Len(history) < MaxCalls
    /\ schemas_id_seq' = schemas_id_seq + 1
    /\ IF RowsOf(schemas, name, version) # {}
       THEN /\ schemas' = schemas
            /\ reply' = Reply("add_schema", TRUE, 0, <<>>)
       ELSE /\ schemas' = Append(schemas, Schema(name, schemas_id_seq', version,
                                                 definition))
            /\ reply' = Reply("add_schema", FALSE, schemas_id_seq', <<>>)
    /\ history' = Append(history,
                         Call(Schema(name, 0, version, definition), reply'))
    /\ UNCHANGED <<schema_, builder, json, result, threads>>

(* SELECT ... WHERE name = $1 AND version = $2 LIMIT 1: the mapped row, or *)
(* std::nullopt                                                            *)
StorageAdapter_get_schema(name, version) ==
    /\ Len(history) < MaxCalls
    /\ reply' = Reply("get_schema", FALSE, 0,
                      IF RowsOf(schemas, name, version) = {} THEN <<>>
                      ELSE <<RowMapper(schemas[CHOOSE k \in
                                 RowsOf(schemas, name, version) : TRUE])>>)
    /\ history' = Append(history, Call(Schema(name, 0, version, NoJson), reply'))
    /\ UNCHANGED <<schema_, builder, json, result, threads, schemas,
                   schemas_id_seq>>

NextStorage ==
    \/ \E name \in SchemaNames, version \in SchemaVersions,
          definition \in SchemaDefinitions :
              StorageAdapter_add_schema(name, version, definition)
    \/ \E name \in SchemaNames, version \in SchemaVersions :
              StorageAdapter_get_schema(name, version)

SpecStorage == InitStorage /\ [][NextStorage]_vars

(* the add_schema calls for the pair of call c among the calls before c *)
AddsBefore(c) ==
    { a \in 1..(c - 1) :
        /\ history[a].outcome.op = "add_schema"
        /\ history[a].document.name = history[c].document.name
        /\ history[a].document.version = history[c].document.version }

(* C15: add_schema is an upsert.  An add_schema for a (name, version) pair *)
(* added before succeeds; the table holds exactly one row for a pair once  *)
(* added; and get_schema returns the definition of the latest add_schema   *)
(* for the pair.                                                           *)
C15_AddSchemaUpserts ==
    \A c \in 1..Len(history) :
        AddsBefore(c) # {} =>
            LET call == history[c]
                latest == CHOOSE a \in AddsBefore(c) :
                              \A o \in AddsBefore(c) : o <= a
            IN  /\ call.outcome.op = "add_schema" => ~call.outcome.error
                /\ Cardinality(RowsOf(schemas, call.document.name,
                                      call.document.version)) = 1
                /\ call.outcome.op = "get_schema" =>
                      /\ Len(call.outcome.row) = 1
                      /\ call.outcome.row[1].definition
                           = history[latest].document.definition

-----------------------------------------------------------------------------
(* Order of the checks of object and array validators (SpecBuilt) *)

(* no validator below the one of field name was called *)
NoChildCalled(name) ==
    \A c \in 1..Len(result.calls) :
        result.calls[c][1] = name => result.calls[c] = <<name>>

(* the validator for names[i] of an object validator, on its own *)
FieldExec(rule, v, name, i) ==
    Validate(rule.children[i], at_key(v, rule.names[i]),
             <<name, rule.names[i]>>)

(* C16: an object validator fails a value that is not an object with "Not  *)
(* an object"; otherwise it looks for every required name before it calls  *)
(* any child, so an absent required name gives "Required field not found"  *)
(* with nothing below the validator called, even when a present field is   *)
(* wrong; a field of the mapping that is absent and not required is        *)
(* skipped and causes no failure; the failure of a present field comes     *)
(* back with the field name in front of its path.                          *)
C16_ObjectRuleOrdering ==
    \A k \in 1..Len(schema_) :
        Reached(k, "Object") =>
            LET name == schema_[k].name
                rule == schema_[k].validator
                v == at_key(json, name)
                present == { i \in 1..Len(rule.names) :
                               contains(v, rule.names[i]) }
                failing == { i \in present :
                               ~FieldExec(rule, v, name, i).res.success }
            IN  IF ~is_object(v)
                THEN /\ result.res = ValidationResult(FALSE, "Not an object",
                                                      name)
                     /\ NoChildCalled(name)
                ELSE IF \E r \in 1..Len(rule.required_fields_) :
                            ~contains(v, rule.required_fields_[r])
                THEN /\ result.res =
                          ValidationResult(FALSE, "Required field not found",
                                           name)
                     /\ NoChildCalled(name)
                ELSE /\ \A i \in 1..Len(rule.names) :
                           i \notin present =>
                               ~CalledUnder(<<name, rule.names[i]>>)
                     /\ (failing = {} /\ OthersPass(name)) => result.res = ok
                     /\ failing # {} =>
                           LET i == CHOOSE m \in failing :
                                        \A o \in failing : m <= o
                           IN  /\ result.res =
                                    prepend_path(
                                        prepend_path(
                                            FieldExec(rule, v, name, i).res,
                                            rule.names[i]),
                                        name)
                               /\ \A o \in present :
                                     o > i =>
                                       ~CalledUnder(<<name, rule.names[o]>>)

(* C16 witness: "name" is required and absent while the present "city" is  *)
(* empty: the required name is reported and "city" was never validated     *)
C16_Witness ==
    /\ HasField(schema_, "user")
    /\ EntryOf(schema_, "user").validator
          = ObjectValidator(<<"city", "name">>,
                            <<make_non_empty_string, make_non_empty_string>>,
                            <<"name">>)
    /\ json = JObj(<<"user">>, <<JObj(<<"city">>, <<JStr("")>>)>>)
    /\ result = Exec(ValidationResult(FALSE, "Required field not found",
                                      "user"),
                     <<<<"user">>>>, FALSE)


(* the validator of the elements of an array validator, on element i       *)
(* (counted from 0), on its own                                            *)
ElementExec(rule, v, name, i) ==
    Validate(rule.children[1], at_index(v, i),
             <<name, "[" \o ToString(i) \o "]">>)

ElementPos(name, i) == <<name, "[" \o ToString(i) \o "]">>

(* C17: an array validator checks the shape ("Not an array"), then the     *)
(* minimum count, then the maximum count, then the elements: a count       *)
(* violation is reported with no element validated.  The elements are      *)
(* validated in index order up to the first one that fails, whose failure  *)
(* comes back with "[i]" in front of its path, and no element after it is  *)
(* validated; with integer-min(0) elements, [1, 2, -1] fails with the path *)
(* "[2]".  The validator passes only if every element passes, and an empty *)
(* array within the bounds passes.                                         *)
C17_ArrayRuleOrdering ==
    \A k \in 1..Len(schema_) :
        Reached(k, "Array") =>
            LET name == schema_[k].name
                rule == schema_[k].validator
                v == at_key(json, name)
                failing == { i \in 0..(size(v) - 1) :
                               ~ElementExec(rule, v, name, i).res.success }
            IN  IF ~is_array(v)
                THEN /\ result.res = ValidationResult(FALSE, "Not an array",
                                                      name)
                     /\ NoChildCalled(name)
                ELSE IF rule.has_min /\ size(v) < rule.min_size_
                THEN /\ result.res =
                          ValidationResult(FALSE,
                              "Array size < " \o ToString(rule.min_size_),
                              name)
                     /\ NoChildCalled(name)
                ELSE IF rule.has_max /\ size(v) > rule.max_size_
                THEN /\ result.res =
                          ValidationResult(FALSE,
                              "Array size > " \o ToString(rule.max_size_),
                              name)
                     /\ NoChildCalled(name)
                ELSE /\ (failing = {} /\ OthersPass(name)) => result.res = ok
                     /\ failing = {} =>
                           \A i \in 0..(size(v) - 1) :
                               Called(ElementPos(name, i))
                     /\ failing # {} =>
                           LET i == CHOOSE m \in failing :
                                        \A o \in failing : m <= o
                               own == prepend_path(
                                          ElementExec(rule, v, name, i).res,
                                          "[" \o ToString(i) \o "]")
                           IN  /\ result.res = prepend_path(own, name)
                               /\ \A e \in 0..(size(v) - 1) :
                                     IF e <= i
                                     THEN Called(ElementPos(name, e))
                                     ELSE ~CalledUnder(ElementPos(name, e))
                               /\ (/\ rule.children[1] = make_min_integer(0)
                                   /\ v = JArr(<<JInt(1), JInt(2), JInt(-1)>>))
                                     => own = ValidationResult(FALSE,
                                                  "Integer < 0", "[2]")

(* C17 witness: [1, 2, -1] against integer-min(0) elements failed at       *)
(* element 2 after elements 0 and 1 were validated                         *)
C17_Witness ==
    /\ HasField(schema_, "user")
    /\ EntryOf(schema_, "user").validator
          = ArrayValidator(make_min_integer(0), FALSE, 0, FALSE, 0)
    /\ json = JObj(<<"user">>,
                   <<JArr(<<JInt(1), JInt(2), JInt(-1)>>)>>)
    /\ ~result.res.success
    /\ result.res.error_message = "Integer < 0"
    /\ result.calls = <<<<"user">>, <<"user", "[0]">>, <<"user", "[1]">>,
                        <<"user", "[2]">>>>

-----------------------------------------------------------------------------
(* Depth of the recursion of validate (SpecBuilt) *)

(* how many containers are nested in a value, itself included *)
RECURSIVE Nesting(_)
Nesting(v) ==
    IF ~(is_object(v) \/ is_array(v)) THEN 0
    ELSE LET below == { Nesting(v.kids[k]) : k \in 1..Len(v.kids) } \cup {0}
         IN  1 + CHOOSE m \in below : \A o \in below : o <= m

(* the nesting of the deepest document validated here *)
DeepestNesting ==
    LET all == { Nesting(d) : d \in Documents }
    IN  CHOOSE m \in all : \A o \in all : o <= m

(* how many validate calls deep the last validate went below the schema *)
Descended ==
    LET depths == { Len(result.calls[c]) : c \in 1..Len(result.calls) }
                  \cup {0}
    IN  CHOOSE m \in depths : \A o \in depths : o <= m

(* C18: validate enforces a maximum recursion depth: there is a maximum,   *)
(* below the nesting of the deepest document here, such that a validate    *)
(* that has to descend deeper goes one call beyond it at most and returns  *)
(* a failure.                                                              *)
C18_RecursionDepthLimited ==
    Validated =>
        \E limit \in 1..(DeepestNesting - 1) :
            Descended > limit =>
                /\ Descended = limit + 1
                /\ ~result.threw
                /\ ~result.res.success

====
